---- MODULE Spec2Model ----
(***************************************************************************)
(* Model of app.py, the "Web Clarity & Empathy Analyzer" page.             *)
(*                                                                         *)
(* The page is a script that is executed from top to bottom once per user  *)
(* action (an invocation).  Between invocations only the widgets keep      *)
(* their value: the text area (urls_text) does, the button is TRUE only in *)
(* the invocation its click triggered, and the selector exists only while  *)
(* it is rendered.  Every action below is one user action followed by one  *)
(* complete execution of the script.                                       *)
(*                                                                         *)
(* A text is a sequence of one-character strings, so that strip, splitlines*)
(* and the substring test are computed character by character.             *)
(***************************************************************************)
EXTENDS Naturals, Sequences, FiniteSets

\* Longest text the user types into the text area.
MaxLen == 5

\* Characters the user types: two letters, the blank and the line feed.
Alphabet == {"a", "b", " ", "\n"}

\* The same for SpecHistory, which also remembers an earlier run.
HistLen == 3
HistAlphabet == {"a", "b", "\n"}

\* Characters str.strip() removes, and the line boundaries of str.splitlines().
Whitespace == {" ", "\t", "\n", "\r"}
LineBoundaries == {"\n", "\r"}

VARIABLES
    urls_text,      \* value of the text area
    run_button,     \* value of st.button("Run analysis") in this invocation
    sel_choice,     \* << >>, or <<u>>: this invocation was triggered by picking u in the selector
    urls,           \* the collected URLs (<< >> when the button was not pressed)
    results,        \* the analysis records
    df,             \* << >> for None, <<rows>> for the summary DataFrame
    analyzer_calls, \* number of calls of analyze_url_dummy in this invocation
    status,         \* the status message: kind "none", "warning" or "success", and the count shown
    rendered,       \* the elements the script emitted, in order
    metrics,        \* << >>, or <<the four metrics>> as rendered
    chart_df,       \* rows of the bar chart
    options,        \* options offered by the selector
    selected_url,   \* << >>, or <<value returned by the selector>>
    selected_item,  \* 0, or the position in results of the record shown in the detail panel
    remembered      \* history: << >>, or <<an earlier triggered run: its text and what it produced>>

vars == <<urls_text, run_button, sel_choice, urls, results, df, analyzer_calls,
          status, rendered, metrics, chart_df, options, selected_url, selected_item, remembered>>

-----------------------------------------------------------------------------
(* str.strip(), str.splitlines() and the substring test *)

RECURSIVE lstrip(_)
lstrip(s) ==
    IF s = << >> THEN << >>
    ELSE IF Head(s) \in Whitespace THEN lstrip(Tail(s))
    ELSE s

RECURSIVE rstrip(_)
rstrip(s) ==
    IF s = << >> THEN << >>
    ELSE IF s[Len(s)] \in Whitespace THEN rstrip(SubSeq(s, 1, Len(s) - 1))
    ELSE s

\* a strip that forgets the right end
strip_left_only(s) == lstrip(s)

strip(s) == rstrip(lstrip(s))

\* cur is the line being read, acc the lines read so far.  "\r\n" is one
\* boundary, and a boundary at the very end opens no further line.
RECURSIVE splitlines_from(_, _, _)
splitlines_from(s, cur, acc) ==
    IF s = << >> THEN (IF cur = << >> THEN acc ELSE Append(acc, cur))
    ELSE IF Head(s) \in LineBoundaries
         THEN LET rest == IF Head(s) = "\r" /\ Len(s) >= 2 /\ s[2] = "\n"
                          THEN Tail(Tail(s)) ELSE Tail(s)
              IN  splitlines_from(rest, << >>, Append(acc, cur))
    ELSE splitlines_from(Tail(s), Append(cur, Head(s)), acc)

splitlines(s) == splitlines_from(s, << >>, << >>)

\* sub in s
Contains(s, sub) ==
    \E i \in 1..(Len(s) + 1) :
        /\ i + Len(sub) - 1 <= Len(s)
        /\ SubSeq(s, i, i + Len(sub) - 1) = sub

-----------------------------------------------------------------------------
(* The input collector *)

\* [u.strip() for u in lines if u.strip()]
RECURSIVE stripped_nonempty(_)
stripped_nonempty(lines) ==
    IF lines = << >> THEN << >>
    ELSE LET u == strip(Head(lines))
         IN  IF u # << >> THEN <<u>> \o stripped_nonempty(Tail(lines))
             ELSE stripped_nonempty(Tail(lines))

\* a collector that tests the text, not the stripped text, and keeps blank lines
collect_urls_unfiltered(text) ==
    IF text # << >>
    THEN [ i \in 1..Len(splitlines(text)) |-> strip(splitlines(text)[i]) ]
    ELSE << >>

collect_urls(text) ==
    IF strip(text) # << >> THEN stripped_nonempty(splitlines(text)) ELSE << >>

-----------------------------------------------------------------------------
(* The mock analyzer *)

wcag_literal == <<"P", "a", "s", "s", " ", "(", "A", "A", " ", "d", "e", "m", "o", ")">>

\* an analyzer whose clarity depends on the URL
analyze_url_scored(url) ==
    [ url                |-> url,
      empathy_score      |-> "Medium",
      clarity_score      |-> IF Len(url) > 1 THEN "Low" ELSE "High",
      wcag_status        |-> wcag_literal,
      visual_schema      |-> "Content-heavy layout",
      summary            |-> "",
      rewrite_suggestion |-> "",
      low_literacy_note  |-> "",
      tone_safety_note   |-> "",
      hierarchy_note     |-> "",
      visual_stress_note |-> "",
      recommendations    |-> << >> ]

analyze_url_dummy(url) ==
    [ url                |-> url,
      empathy_score      |-> "Medium",
      clarity_score      |-> "High",
      wcag_status        |-> wcag_literal,
      visual_schema      |-> "Content-heavy layout",
      summary            |-> "Demo summary: content is generally clear but could be simplified for low-literacy readers.",
      rewrite_suggestion |-> "Shorten long sentences, reduce jargon, and add headings and bullet points for key actions.",
      low_literacy_note  |-> "Contains a few long sentences; consider simpler language and shorter paragraphs.",
      tone_safety_note   |-> "Tone is mostly calm and neutral. Avoid phrases that sound alarming or judgmental.",
      hierarchy_note     |-> "Main message appears, but headings and bullets could be used more consistently.",
      visual_stress_note |-> "Text blocks are a bit dense. Adding spacing and subheadings would reduce visual fatigue.",
      recommendations    |-> << "Break long paragraphs into 2-3 shorter ones.",
                                "Use headings for key sections like 'What this means' and 'What to do next'.",
                                "Replace medical jargon with patient-friendly words where possible." >> ]

-----------------------------------------------------------------------------
(* The main action: the loop over urls and the summary DataFrame *)

\* results kept from one invocation to the next
results_kept(prev) == prev

\* results = []  -- prev is what an earlier invocation left in results
results_init(prev) == << >>

\* for url in urls: results.append(analyze_url_dummy(url))
RECURSIVE analyze_all(_, _)
analyze_all(us, res) ==
    IF us = << >> THEN res
    ELSE analyze_all(Tail(us), Append(res, analyze_url_dummy(Head(us))))

\* a table that drops the rows of URLs already listed
RECURSIVE df_rows_dedup(_)
df_rows_dedup(res) ==
    IF res = << >> THEN << >>
    ELSE LET row == [ URL           |-> res[Len(res)].url,
                      Empathy       |-> res[Len(res)].empathy_score,
                      Clarity       |-> res[Len(res)].clarity_score,
                      WCAG          |-> res[Len(res)].wcag_status,
                      Visual_schema |-> res[Len(res)].visual_schema ]
             before == df_rows_dedup(SubSeq(res, 1, Len(res) - 1))
         IN  IF \E i \in 1..Len(before) : before[i].URL = row.URL
             THEN before ELSE Append(before, row)

\* for item in results: df_rows.append({...})
RECURSIVE df_rows(_)
df_rows(res) ==
    IF res = << >> THEN << >>
    ELSE << [ URL           |-> Head(res).url,
              Empathy       |-> Head(res).empathy_score,
              Clarity       |-> Head(res).clarity_score,
              WCAG          |-> Head(res).wcag_status,
              Visual_schema |-> Head(res).visual_schema ] >> \o df_rows(Tail(res))

-----------------------------------------------------------------------------
(* The results section *)

\* a total that counts the distinct URLs
total_urls_distinct(rows) == Cardinality({rows[i].URL : i \in 1..Len(rows)})

total_urls(rows) == Len(rows)

\* (df["Clarity"] == "High").sum()
high_clarity(rows) ==
    Cardinality({i \in 1..Len(rows) : rows[i].Clarity = "High"})

\* df["Empathy"].isin(["Medium", "High"]).sum()
good_empathy(rows) ==
    Cardinality({i \in 1..Len(rows) : rows[i].Empathy \in {"Medium", "High"}})

\* df["WCAG"].str.contains("Pass").sum()
wcag_pass(rows) ==
    Cardinality({i \in 1..Len(rows) : Contains(rows[i].WCAG, <<"P", "a", "s", "s">>)})

\* score_map; a score outside it maps to a missing value (0 here)
score_map(score) ==
    CASE score = "Low" -> 1
      [] score = "Medium" -> 2
      [] score = "High" -> 3
      [] OTHER -> 0

chart_rows(rows) ==
    [ i \in 1..Len(rows) |->
        [ URL           |-> rows[i].URL,
          Clarity_score |-> score_map(rows[i].Clarity),
          Empathy_score |-> score_map(rows[i].Empathy) ] ]

\* the distinct URLs of the column, in order of first occurrence
RECURSIVE url_column_unique(_)
url_column_unique(rows) ==
    IF rows = << >> THEN << >>
    ELSE LET before == url_column_unique(SubSeq(rows, 1, Len(rows) - 1))
             u == rows[Len(rows)].URL
         IN  IF \E i \in 1..Len(before) : before[i] = u THEN before ELSE Append(before, u)

\* df["URL"].tolist()
url_column(rows) == [ i \in 1..Len(rows) |-> rows[i].URL ]

\* st.selectbox: the option the widget holds; without a widget value (0) the
\* option at index 0 of the list, which is position 1 here
selectbox(opts, widget) ==
    IF widget \in 1..Len(opts) THEN opts[widget] ELSE opts[1]

\* a lookup that keeps the last match
RECURSIVE next_item_last(_, _, _)
next_item_last(res, sel, pos) ==
    IF pos > Len(res) THEN 0
    ELSE LET later == next_item_last(res, sel, pos + 1)
         IN  IF later # 0 THEN later
             ELSE IF res[pos].url = sel THEN pos ELSE 0

\* next(item for item in results if item["url"] == selected_url), as the
\* position of that item; 0 stands for StopIteration
RECURSIVE next_item(_, _, _)
next_item(res, sel, pos) ==
    IF pos > Len(res) THEN 0
    ELSE IF res[pos].url = sel THEN pos
    ELSE next_item(res, sel, pos + 1)

\* a results section that shows the table before the metrics
results_section_table_first(found) ==
    <<"dataframe", "metrics", "bar_chart", "selectbox">>
        \o (IF found THEN <<"detail">> ELSE <<"exception">>)

\* the elements of the results section, in the order the script emits them
results_section(found) ==
    <<"metrics", "dataframe", "bar_chart", "selectbox">>
        \o (IF found THEN <<"detail">> ELSE <<"exception">>)

-----------------------------------------------------------------------------
(* One invocation: the script from top to bottom *)

NoStatus == [kind |-> "none", count |-> 0]

Script(text, button, choice, widget, prev) ==
    LET results0 == results_init(prev)
        collected == IF button THEN collect_urls(text) ELSE << >>
        analysed == button /\ collected # << >>
        results1 == IF analysed THEN analyze_all(collected, results0) ELSE results0
        df1 == IF analysed THEN <<df_rows(results1)>> ELSE << >>
        status1 == IF ~button THEN NoStatus
                   ELSE IF collected = << >> THEN [kind |-> "warning", count |-> 0]
                   ELSE [kind |-> "success", count |-> Len(collected)]
        show == results1 # << >> /\ df1 # << >>
        rows == df1[1]
        opts == url_column(rows)
        sel == selectbox(opts, widget)
        item == next_item(results1, sel, 1)
    IN  /\ urls_text' = text
        /\ run_button' = button
        /\ sel_choice' = choice
        /\ urls' = collected
        /\ results' = results1
        /\ df' = df1
        /\ analyzer_calls' = (IF analysed THEN Len(collected) ELSE 0)
        /\ status' = status1
        /\ rendered' = (IF status1.kind = "none" THEN << >> ELSE <<status1.kind>>)
                         \o (IF show THEN results_section(item # 0) ELSE << >>)
        /\ metrics' = (IF show
                       THEN << [ total_urls   |-> total_urls(rows),
                                 high_clarity |-> high_clarity(rows),
                                 good_empathy |-> good_empathy(rows),
                                 wcag_pass    |-> wcag_pass(rows) ] >>
                       ELSE << >>)
        /\ chart_df' = (IF show THEN chart_rows(rows) ELSE << >>)
        /\ options' = (IF show THEN opts ELSE << >>)
        /\ selected_url' = (IF show THEN <<sel>> ELSE << >>)
        /\ selected_item' = (IF show THEN item ELSE 0)

\* what a triggered run produced
Produced ==
    [ text |-> urls_text, status |-> status, urls |-> urls, results |-> results,
      df |-> df, metrics |-> metrics, rendered |-> rendered ]

-----------------------------------------------------------------------------
(* The page is loaded: the script runs with an empty text area *)

Init ==
    /\ urls_text = << >>
    /\ run_button = FALSE
    /\ sel_choice = << >>
    /\ urls = << >>
    /\ results = << >>
    /\ df = << >>
    /\ analyzer_calls = 0
    /\ status = NoStatus
    /\ rendered = << >>
    /\ metrics = << >>
    /\ chart_df = << >>
    /\ options = << >>
    /\ selected_url = << >>
    /\ selected_item = 0
    /\ remembered = << >>

(* The user's actions, each followed by one run of the script *)

\* the user types a character into the text area and commits it
TypeChar(c) ==
    /\ Len(urls_text) < MaxLen
    /\ Script(Append(urls_text, c), FALSE, << >>, 0, results)
    /\ UNCHANGED remembered

\* the user deletes the last character and commits
Backspace ==
    /\ urls_text # << >>
    /\ Script(SubSeq(urls_text, 1, Len(urls_text) - 1), FALSE, << >>, 0, results)
    /\ UNCHANGED remembered

\* the user clicks "Run analysis"
ClickRun ==
    /\ Script(urls_text, TRUE, << >>, 0, results)
    /\ UNCHANGED remembered

\* the user picks another URL in the selector of the page shown
SelectUrl(i) ==
    /\ selected_url # << >>
    /\ i \in 1..Len(options)
    /\ options[i] # selected_url[1]
    /\ Script(urls_text, FALSE, <<options[i]>>, i, results)
    /\ UNCHANGED remembered

Next ==
    \/ \E c \in Alphabet : TypeChar(c)
    \/ Backspace
    \/ ClickRun
    \/ \E i \in 1..MaxLen : SelectUrl(i)

Spec == Init /\ [][Next]_vars

-----------------------------------------------------------------------------
(* The same page with a history of one earlier triggered run.  remembered  *)
(* holds what that run produced, and whether another invocation (a run on  *)
(* a different text, or a selection) has taken place since.                *)

Aged(other) ==
    IF remembered = << >> THEN << >>
    ELSE << [remembered[1] EXCEPT !.other = @ \/ other] >>

HistTypeChar(c) ==
    /\ Len(urls_text) < HistLen
    /\ Script(Append(urls_text, c), FALSE, << >>, 0, results)
    /\ UNCHANGED remembered

HistBackspace ==
    /\ urls_text # << >>
    /\ Script(SubSeq(urls_text, 1, Len(urls_text) - 1), FALSE, << >>, 0, results)
    /\ UNCHANGED remembered

\* the click either replaces the remembered run by this one or keeps it
HistClickRun ==
    /\ Script(urls_text, TRUE, << >>, 0, results)
    /\ remembered' \in
          { << [run |-> Produced', other |-> FALSE] >>,
            Aged(remembered # << >> /\ remembered[1].run.text # urls_text) }

HistSelectUrl(i) ==
    /\ selected_url # << >>
    /\ i \in 1..Len(options)
    /\ options[i] # selected_url[1]
    /\ Script(urls_text, FALSE, <<options[i]>>, i, results)
    /\ remembered' = Aged(TRUE)

HistNext ==
    \/ \E c \in HistAlphabet : HistTypeChar(c)
    \/ HistBackspace
    \/ HistClickRun
    \/ \E i \in 1..HistLen : HistSelectUrl(i)

SpecHistory == Init /\ [][HistNext]_vars

-----------------------------------------------------------------------------
(* Properties *)

Shown(tag) == \E i \in 1..Len(rendered) : rendered[i] = tag

ResultsShown == Shown("metrics") \/ Shown("dataframe") \/ Shown("bar_chart")
                    \/ Shown("selectbox") \/ Shown("detail")

\* The lines of a text, told from the characters: i and j lie on one line
\* when no line boundary lies between them.
SameLine(t, i, j) == \A k \in i..j : t[k] \notin LineBoundaries

\* t[i] is the first character of its line that is not whitespace
FirstOfLine(t, i) ==
    /\ t[i] \notin Whitespace
    /\ \A j \in 1..(i - 1) : SameLine(t, j, i) => t[j] \in Whitespace

\* t[i] is the last character of its line that is not whitespace
LastOfLine(t, i) ==
    /\ t[i] \notin Whitespace
    /\ \A j \in (i + 1)..Len(t) : SameLine(t, i, j) => t[j] \in Whitespace

\* one position per line that is not blank
NonBlankStarts(t) == {i \in 1..Len(t) : FirstOfLine(t, i)}

KthStart(t, k) ==
    CHOOSE i \in NonBlankStarts(t) :
        Cardinality({j \in NonBlankStarts(t) : j < i}) = k - 1

LineEnd(t, i) == CHOOSE e \in i..Len(t) : SameLine(t, i, e) /\ LastOfLine(t, e)

AllBlank(t) == \A i \in 1..Len(t) : t[i] \in Whitespace

\* C1: a triggered run on a text with a line that is not blank collects one
\* URL per such line, the k-th URL being the k-th such line without its
\* surrounding whitespace; no URL is empty or starts or ends with whitespace.
C1_CollectedUrls ==
    (run_button /\ NonBlankStarts(urls_text) # {}) =>
        /\ Len(urls) = Cardinality(NonBlankStarts(urls_text))
        /\ \A k \in 1..Len(urls) :
              /\ urls[k] = SubSeq(urls_text, KthStart(urls_text, k),
                                  LineEnd(urls_text, KthStart(urls_text, k)))
              /\ urls[k] # << >>
              /\ urls[k][1] \notin Whitespace
              /\ urls[k][Len(urls[k])] \notin Whitespace

\* two URLs collected from a text that also holds a blank line or blanks to trim
C1_Witness ==
    /\ run_button
    /\ Len(urls) = 2
    /\ Len(urls[1]) + Len(urls[2]) + 1 < Len(urls_text)

\* C2: a triggered run on an empty or all-blank text collects nothing, shows
\* the warning, calls the analyzer not once and renders nothing of the
\* results section; the warning and the results section never appear together.
C2_BlankInputWarns ==
    /\ (run_button /\ AllBlank(urls_text)) =>
          /\ urls = << >>
          /\ status.kind = "warning"
          /\ rendered = <<"warning">>
          /\ analyzer_calls = 0
          /\ results = << >>
          /\ metrics = << >> /\ chart_df = << >> /\ options = << >>
          /\ selected_url = << >> /\ selected_item = 0
    /\ ~(Shown("warning") /\ (ResultsShown \/ Shown("exception")))

\* a triggered run on a text of blanks and line feeds
C2_Witness ==
    /\ run_button
    /\ Len(urls_text) >= 2
    /\ AllBlank(urls_text)
    /\ \E i \in 1..Len(urls_text) : urls_text[i] = "\n"
    /\ rendered = <<"warning">>

\* C3: the analyzer is called once per collected URL; the i-th record echoes
\* the i-th URL and every other field holds its fixed literal, so that two
\* records of a run differ in their url at most.
C3_AnalyzerConstant ==
    /\ analyzer_calls = Len(results)
    /\ \A i \in 1..Len(results) :
          /\ results[i].url = urls[i]
          /\ results[i].empathy_score = "Medium"
          /\ results[i].clarity_score = "High"
          /\ results[i].wcag_status = <<"P", "a", "s", "s", " ", "(", "A", "A", " ", "d", "e", "m", "o", ")">>
          /\ results[i].visual_schema = "Content-heavy layout"
          /\ results[i].summary = "Demo summary: content is generally clear but could be simplified for low-literacy readers."
          /\ results[i].rewrite_suggestion = "Shorten long sentences, reduce jargon, and add headings and bullet points for key actions."
          /\ results[i].low_literacy_note = "Contains a few long sentences; consider simpler language and shorter paragraphs."
          /\ results[i].tone_safety_note = "Tone is mostly calm and neutral. Avoid phrases that sound alarming or judgmental."
          /\ results[i].hierarchy_note = "Main message appears, but headings and bullets could be used more consistently."
          /\ results[i].visual_stress_note = "Text blocks are a bit dense. Adding spacing and subheadings would reduce visual fatigue."
          /\ Len(results[i].recommendations) = 3
    /\ \A i, j \in 1..Len(results) :
          [results[i] EXCEPT !.url = << >>] = [results[j] EXCEPT !.url = << >>]

\* records of two URLs of different length
C3_Witness ==
    /\ Len(results) >= 2
    /\ Len(results[1].url) # Len(results[2].url)

\* C4: when the results section is rendered, each of the three counts lies
\* between 0 and the total, and the total is the number of collected URLs
\* and at least 1.
C4_CountsWithinTotal ==
    ResultsShown =>
        /\ metrics # << >>
        /\ metrics[1].total_urls = Len(urls)
        /\ metrics[1].total_urls >= 1
        /\ metrics[1].high_clarity \in 0..metrics[1].total_urls
        /\ metrics[1].good_empathy \in 0..metrics[1].total_urls
        /\ metrics[1].wcag_pass \in 0..metrics[1].total_urls

\* metrics of a run of three URLs, one of them entered twice
C4_Witness ==
    /\ Shown("metrics")
    /\ metrics[1].total_urls = 3
    /\ \E i, j \in 1..Len(urls) : i # j /\ urls[i] = urls[j]

\* C5: a run with at least one URL renders a table of one row per record in
\* the order of the collected URLs, row i carrying the url, empathy, clarity,
\* WCAG status and visual schema of record i.
C5_SummaryRows ==
    (run_button /\ urls # << >>) =>
        /\ df # << >>
        /\ Shown("dataframe")
        /\ Len(df[1]) = Len(results)
        /\ Len(df[1]) = Len(urls)
        /\ \A i \in 1..Len(df[1]) :
              /\ df[1][i].URL = urls[i]
              /\ df[1][i].URL = results[i].url
              /\ df[1][i].Empathy = results[i].empathy_score
              /\ df[1][i].Clarity = results[i].clarity_score
              /\ df[1][i].WCAG = results[i].wcag_status
              /\ df[1][i].Visual_schema = results[i].visual_schema

\* a table with two rows of the same URL
C5_Witness ==
    /\ df # << >>
    /\ Len(df[1]) >= 2
    /\ df[1][1] = df[1][2]

\* C6: when the results section is rendered the lookup does not raise, the
\* detail panel is rendered, and it shows the first record in result order
\* whose url is the selected one.
C6_LookupFirstMatch ==
    /\ ~Shown("exception")
    /\ selected_url # << >> =>
          /\ Shown("detail")
          /\ selected_item \in 1..Len(results)
          /\ results[selected_item].url = selected_url[1]
          /\ \A j \in 1..(selected_item - 1) : results[j].url # selected_url[1]

\* the detail panel of a URL that the run holds more than once
C6_Witness ==
    /\ Shown("detail")
    /\ \E j \in 1..Len(results) : j > selected_item /\ results[j].url = selected_url[1]

\* C7 as stated: the selector offers each URL of the run once, in order of
\* first occurrence, and its selection is the first URL of the run.
C7_SelectorDistinct ==
    Shown("selectbox") =>
        /\ \A i, j \in 1..Len(options) : i # j => options[i] # options[j]
        /\ {options[i] : i \in 1..Len(options)} = {urls[i] : i \in 1..Len(urls)}
        /\ \A i, j \in 1..Len(options) :
              i < j => \E k \in 1..Len(urls) :
                          urls[k] = options[i] /\ \A m \in 1..k : urls[m] # options[j]
        /\ selected_url = <<urls[1]>>

\* C7 amended: the selector offers the URL of every record in result order,
\* one option per record, and its selection is the first URL of the run.
C7_SelectorPerRecord ==
    Shown("selectbox") =>
        /\ Len(options) = Len(results)
        /\ \A i \in 1..Len(options) : options[i] = results[i].url /\ options[i] = urls[i]
        /\ selected_url = <<urls[1]>>

\* a selector over a run that holds its first URL again, after another one
C7_Witness ==
    /\ Shown("selectbox")
    /\ Len(options) = 3
    /\ options[1] = options[3]
    /\ options[1] # options[2]

\* C8 as stated: status message, summary table, metrics, bar chart,
\* selector, detail panel.
C8_TableBeforeMetrics ==
    ResultsShown =>
        rendered = <<"success", "dataframe", "metrics", "bar_chart", "selectbox", "detail">>

\* C8 amended: status message, metrics, summary table, bar chart, selector,
\* detail panel.
C8_MetricsBeforeTable ==
    ResultsShown =>
        rendered = <<"success", "metrics", "dataframe", "bar_chart", "selectbox", "detail">>

\* a rendered results section, down to the detail panel
C8_Witness == Shown("success") /\ Shown("detail") /\ Len(urls) >= 2

\* C9: a triggered run produces what an earlier triggered run on the same
\* text produced, whatever happened in between; an invocation that the
\* button did not trigger shows nothing, and a triggered one holds the
\* records of its own URLs only.
C9_RunsIndependent ==
    /\ (run_button /\ remembered # << >> /\ remembered[1].run.text = urls_text) =>
          Produced = remembered[1].run
    /\ ~run_button =>
          /\ results = << >> /\ df = << >> /\ rendered = << >>
          /\ status.kind = "none" /\ metrics = << >> /\ selected_url = << >>
    /\ run_button => Len(results) = Len(urls)

\* a second run on a text of two URLs, after an invocation of another kind
C9_Witness ==
    /\ run_button
    /\ remembered # << >>
    /\ remembered[1].other
    /\ remembered[1].run.text = urls_text
    /\ Len(results) = 2

\* C10 as stated: the invocation that follows the choice of a URL in the
\* selector renders the results section and the detail panel of that URL.
C10_SelectionShowsDetail ==
    sel_choice # << >> =>
        /\ ResultsShown
        /\ Shown("detail")
        /\ selected_url = sel_choice
        /\ selected_item \in 1..Len(results)
        /\ results[selected_item].url = sel_choice[1]

====
